---------------------------- MODULE Spec2Model ----------------------------
(***************************************************************************)
(* Leadership 200 fundraising tracker (src/app.py, src/perfectapp.py):     *)
(* template merge, gift bucketing of the PDF builder, and the request      *)
(* handlers running against the single-table PostgreSQL store.             *)
(*                                                                         *)
(* JSON values are records of one shape so that any two can be compared:   *)
(*   t = "absent"  the key is missing from its object                      *)
(*   t = "null"    JSON null (Python None)                                 *)
(*   t = "num"     a finite number, field n (whole dollars / counts)       *)
(*   t = "nan"     the NaN token Python's json module reads and writes     *)
(*   t = "str"     a string, field s: a sequence of characters.  A         *)
(*                 character is "$", ",", "-", a digit, or a chunk of      *)
(*                 other text (letters, blanks, "/").  The decimal point   *)
(*                 is outside the modelled alphabet.                       *)
(***************************************************************************)
EXTENDS Integers, Sequences, FiniteSets, TLC

Absent == [t |-> "absent", n |-> 0, s |-> << >>]
Null == [t |-> "null", n |-> 0, s |-> << >>]
NaN == [t |-> "nan", n |-> 0, s |-> << >>]
Num(k) == [t |-> "num", n |-> k, s |-> << >>]
Str(cs) == [t |-> "str", n |-> 0, s |-> cs]

Digits == <<"0", "1", "2", "3", "4", "5", "6", "7", "8", "9">>
IsDigit(c) == \E i \in 1..10 : Digits[i] = c
DigitVal(c) == (CHOOSE i \in 1..10 : Digits[i] = c) - 1

RECURSIVE DigitsValue(_)
DigitsValue(ds) ==
    IF ds = << >> THEN 0
    ELSE 10 * DigitsValue(SubSeq(ds, 1, Len(ds) - 1)) + DigitVal(ds[Len(ds)])

\* re.sub(r"[^0-9.\-]", "", s): keep digits and "-", drop everything else.
StripNonNumeric(cs) == SelectSeq(cs, LAMBDA c : IsDigit(c) \/ c = "-")

\* float(s) on the stripped text; ValueError (empty, lone or misplaced "-")
\* is caught and yields 0.0.
FloatOrZero(cs) ==
    LET neg == cs # << >> /\ cs[1] = "-"
        ds == IF neg THEN Tail(cs) ELSE cs
    IN  IF ds # << >> /\ \A i \in 1..Len(ds) : IsDigit(ds[i])
        THEN IF neg THEN 0 - DigitsValue(ds) ELSE DigitsValue(ds)
        ELSE 0

\* _parse_number: None -> 0.0, a number -> itself, anything else -> the
\* stripped text of str(value).  NaN stays NaN in Python; callers that
\* compare or convert it test IsNaN first, so the 0 here is never read
\* as a value.
_parse_number(value) ==
    CASE value.t = "absent" -> 0
      [] value.t = "null" -> 0
      [] value.t = "num" -> value.n
      [] value.t = "nan" -> 0
      [] OTHER -> FloatOrZero(StripNonNumeric(value.s))

IsNaN(value) == value.t = "nan"

\* "not value" of Python: None, 0, "" are falsy; NaN is truthy.
Falsy(value) ==
    \/ value.t \in {"absent", "null"}
    \/ value.t = "num" /\ value.n = 0
    \/ value.t = "str" /\ value.s = << >>

\* re.search(r"\$([\d,]+(?:\.\d+)?)", label): the leftmost "$" that is
\* followed by a digit or comma; the group is the longest run of digits
\* and commas after it.
AmountChar(c) == IsDigit(c) \/ c = ","
MatchStarts(cs) ==
    {i \in 1..Len(cs) : cs[i] = "$" /\ i < Len(cs) /\ AmountChar(cs[i + 1])}
RECURSIVE AmountRun(_, _)
AmountRun(cs, i) ==
    IF i <= Len(cs) /\ AmountChar(cs[i])
    THEN <<cs[i]>> \o AmountRun(cs, i + 1)
    ELSE << >>
MinOf(S) == CHOOSE x \in S : \A y \in S : x <= y

\* _gift_base_from_label.  A label that is no string raises: a truthy one
\* in re.search (TypeError), a falsy one (None, 0) when it is drawn; a row
\* without the key gets "".
LabelRaisesNoMatch(label) ==
    \/ label.t \notin {"str", "absent"}
    \/ label.t = "str" /\ label.s # << >> /\ MatchStarts(label.s) = {}
LabelRaises(label) == label.t \notin {"str", "absent"}
_gift_base_from_label(label) ==
    IF Falsy(label) \/ label.t # "str" THEN 0
    ELSE IF MatchStarts(label.s) = {} THEN 0
    ELSE _parse_number(Str(AmountRun(label.s, MinOf(MatchStarts(label.s)) + 1)))

-----------------------------------------------------------------------------
(* default_state(): the server template *)

Million == <<",", "0", "0", "0", ",", "0", "0", "0">>
Thousand == <<",", "0", "0", "0">>
TemplateRow(recv, need, label) ==
    [received |-> Num(recv), needed |-> Num(need), label |-> Str(label)]

TemplateRows ==
    << TemplateRow(0, 1, <<"1 Gift of ", "$", "2", "5">> \o Million),
       TemplateRow(0, 1, <<"1 Gift/Pledge of ", "$", "2", "0">> \o Million),
       TemplateRow(1, 1, <<"1 Gift/Pledge of ", "$", "1", "0">> \o Million),
       TemplateRow(0, 1, <<"1 Gift/Pledge of ", "$", "5">> \o Million),
       TemplateRow(0, 2, <<"2 Gifts/Pledges of ", "$", "2", ",", "5", "0", "0">> \o Thousand),
       TemplateRow(0, 10, <<"10 Gifts/Pledges of ", "$", "1">> \o Million),
       TemplateRow(0, 14, <<"14 Gifts/Pledges of ", "$", "5", "0", "0">> \o Thousand),
       TemplateRow(0, 20, <<"20 Gifts/Pledges of ", "$", "2", "5", "0">> \o Thousand),
       TemplateRow(0, 50, <<"50 Gifts/Pledges of ", "$", "1", "0", "0">> \o Thousand),
       TemplateRow(0, 100, <<"100 Gifts/Pledges of ", "$", "5", "0">> \o Thousand) >>

\* A gifts value: t = "list" with items, "null"/"absent" (also standing for
\* the other falsy values), or "bad": a truthy value that is not a list.
\* A gift item: t = "dict" with its amount, or "bad": any non-object.
GiftList(items) == [t |-> "list", items |-> items]
NoGifts(kind) == [t |-> kind, items |-> << >>]
Gift(amount) == [t |-> "dict", amount |-> amount]
BadGift == [t |-> "bad", amount |-> Absent]

default_state ==
    [goal |-> Num(100000000),
     title |-> Str(<<"LEADERSHIP 200">>),
     rows |-> TemplateRows,
     gifts |-> GiftList(<< >>)]


-----------------------------------------------------------------------------
(* merge_state_with_template *)
(*                                                                         *)
(* A request body (parsed JSON): t = "null" stands for every falsy body    *)
(* (None, {}, [], 0, "", false), "dict" for a non-empty object, "bad" for  *)
(* a truthy body that is no object (a non-empty list, a number, a string). *)
(* Its rows value: "absent"/"null" (also the other falsy values), "list",  *)
(* "str" (a non-empty string: its items are its characters), "num" (a      *)
(* truthy number or true) or "dict" (a non-empty object).                  *)
(* A rows item: "null" (any falsy item, {} included), "dict", "num" (a     *)
(* truthy number), "str" (a string or list not containing "received"),     *)
(* "strrecv" (a string or list containing "received").                     *)

RowsValue(kind, items) == [t |-> kind, items |-> items]
Entry(kind, received, label, needed) ==
    [t |-> kind, received |-> received, label |-> label, needed |-> needed]
Body(kind, goal, title, rows, gifts) ==
    [t |-> kind, goal |-> goal, title |-> title, rows |-> rows, gifts |-> gifts]
NullBody == Body("null", Absent, Absent, RowsValue("absent", << >>), NoGifts("absent"))
BadBody == Body("bad", Absent, Absent, RowsValue("absent", << >>), NoGifts("absent"))

\* incoming.get("rows") or []
IncomingRows(incoming) ==
    IF incoming.rows.t \in {"list", "str"} THEN incoming.rows.items ELSE << >>

\* inc = incoming_rows[i] or {}; "received" in inc
HasReceived(inc) == inc.t = "dict" /\ inc.received.t # "absent"

\* Lines 143-145: the body of the loop for one template row.
MergeRowLabelToo(row, inc) ==
    [received |-> IF HasReceived(inc) THEN inc.received ELSE row.received,
     needed |-> IF inc.t = "dict" /\ inc.needed.t # "absent" THEN inc.needed ELSE row.needed,
     label |-> IF inc.t = "dict" /\ inc.label.t # "absent" THEN inc.label ELSE row.label]
MergeRow(row, inc) ==
    IF HasReceived(inc) THEN [row EXCEPT !.received = inc.received] ELSE row

\* for i, row in enumerate(base["rows"]): if i < len(incoming_rows): ...
MergeRowsOffByOne(base_rows, incoming_rows) ==
    [i \in 1..Len(base_rows) |->
        IF i < Len(incoming_rows) THEN MergeRow(base_rows[i], incoming_rows[i])
        ELSE base_rows[i]]
MergeRows(base_rows, incoming_rows) ==
    [i \in 1..Len(base_rows) |->
        IF i <= Len(incoming_rows) THEN MergeRow(base_rows[i], incoming_rows[i])
        ELSE base_rows[i]]

\* What makes the function raise instead of returning:
\*   incoming.get on a non-object body            (AttributeError)
\*   len() of a number                            (TypeError)
\*   incoming_rows[0] on an object                (KeyError)
\*   "received" in <number>                       (TypeError)
\*   inc["received"] on a string or list          (TypeError)
EntryRaises(inc) == inc.t \in {"num", "strrecv"}
MergeRaises(incoming) ==
    \/ incoming.t = "bad"
    \/ /\ incoming.t = "dict"
       /\ \/ incoming.rows.t \in {"num", "dict"}
          \/ \E i \in 1..Len(IncomingRows(incoming)) :
                i <= Len(default_state.rows) /\ EntryRaises(IncomingRows(incoming)[i])

MergedDoc(incoming) ==
    [goal |-> IF incoming.goal.t = "absent" THEN default_state.goal ELSE incoming.goal,
     title |-> IF incoming.title.t = "absent" THEN default_state.title ELSE incoming.title,
     rows |-> MergeRows(default_state.rows, IncomingRows(incoming)),
     gifts |-> IF incoming.gifts.t = "absent" THEN default_state.gifts ELSE incoming.gifts]

\* The result: raised, or the merged document (doc is meaningless when raised).
merge_state_with_template(incoming) ==
    IF incoming.t = "null" THEN [raised |-> FALSE, doc |-> default_state]
    ELSE IF MergeRaises(incoming) THEN [raised |-> TRUE, doc |-> default_state]
    ELSE [raised |-> FALSE, doc |-> MergedDoc(incoming)]

-----------------------------------------------------------------------------
(* _build_pdf_from_state: everything before the drawing calls, and the     *)
(* conditions under which the function raises.                             *)
(* A state's rows are objects with label, received and needed values.      *)

RECURSIVE SumSeq(_)
SumSeq(xs) == IF xs = << >> THEN 0 ELSE Head(xs) + SumSeq(Tail(xs))

\* gifts.sort(reverse=True)
RECURSIVE InsertGift(_, _)
InsertGift(xs, x) ==
    IF xs = << >> THEN <<x>>
    ELSE IF Head(xs) >= x THEN <<Head(xs)>> \o InsertGift(Tail(xs), x)
    ELSE <<x>> \o xs
RECURSIVE SortGifts(_)
SortGifts(xs) ==
    IF xs = << >> THEN << >>
    ELSE InsertGift(SortGifts(SubSeq(xs, 1, Len(xs) - 1)), xs[Len(xs)])

\* list.sort(key=base, reverse=True): descending, rows of equal base keep
\* their order.
RECURSIVE InsertRow(_, _)
InsertRow(xs, x) ==
    IF xs = << >> THEN <<x>>
    ELSE IF Head(xs).base >= x.base THEN <<Head(xs)>> \o InsertRow(Tail(xs), x)
    ELSE <<x>> \o xs
RECURSIVE SortRowsDesc(_)
SortRowsDesc(xs) ==
    IF xs = << >> THEN << >>
    ELSE InsertRow(SortRowsDesc(SubSeq(xs, 1, Len(xs) - 1)), xs[Len(xs)])

\* state.get("gifts", []) or []
GiftsRaw(state) == IF state.gifts.t = "list" THEN state.gifts.items ELSE << >>

\* Lines 339-343: amt = _parse_number(g.get("amount")); kept if amt > 0
\* (NaN > 0 is False).
KeepGiftNonZero(g) == ~IsNaN(g.amount) /\ _parse_number(g.amount) # 0
KeepGiftNonNegative(g) == ~IsNaN(g.amount) /\ _parse_number(g.amount) >= 0
KeepGift(g) == ~IsNaN(g.amount) /\ _parse_number(g.amount) > 0
RECURSIVE NormalizeGifts(_)
NormalizeGifts(gifts_raw) ==
    IF gifts_raw = << >> THEN << >>
    ELSE IF KeepGift(Head(gifts_raw))
         THEN <<_parse_number(Head(gifts_raw).amount)>> \o NormalizeGifts(Tail(gifts_raw))
         ELSE NormalizeGifts(Tail(gifts_raw))
SortedGifts(state) == SortGifts(NormalizeGifts(GiftsRaw(state)))

\* Lines 349-359: one row_infos entry.
RowInfo(r) ==
    [label |-> r.label,
     received |-> _parse_number(r.received),
     needed |-> _parse_number(r.needed),
     base |-> _gift_base_from_label(r.label),
     gifts |-> << >>,
     auto_total |-> 0]
RowInfos(rows_raw) == [i \in 1..Len(rows_raw) |-> RowInfo(rows_raw[i])]

\* Line 362: row_infos.sort(key=lambda ri: ri["base"], reverse=True)
SortRowsUnsorted(row_infos) == row_infos
SortRows(row_infos) == SortRowsDesc(row_infos)

\* Lines 366-371: the index of the first row whose range holds g_amt, 0 when
\* the inner loop ends without a break.
InRange(row_infos, i, g_amt) ==
    /\ g_amt >= row_infos[i].base
    /\ i > 1 => g_amt < row_infos[i - 1].base
BucketOf(row_infos, g_amt) ==
    LET hits == {i \in 1..Len(row_infos) : InRange(row_infos, i, g_amt)}
    IN  IF hits = {} THEN 0 ELSE MinOf(hits)

\* Lines 365-371: the outer loop; ri["gifts"].append(g_amt) on the hit row.
RECURSIVE BucketGifts(_, _)
BucketGifts(row_infos, gifts) ==
    IF gifts = << >> THEN row_infos
    ELSE LET done == BucketGifts(row_infos, SubSeq(gifts, 1, Len(gifts) - 1))
             g_amt == gifts[Len(gifts)]
             i == BucketOf(row_infos, g_amt)
         IN  IF i = 0 THEN done
             ELSE [done EXCEPT ![i].gifts = Append(@, g_amt)]

\* Lines 373-377: auto_total, and the auto count standing in for a manual
\* received of 0 or less.
FinalizeAdditive(ri) ==
    [ri EXCEPT !.auto_total = SumSeq(ri.gifts),
               !.received = ri.received + Len(ri.gifts)]
Finalize(ri) ==
    [ri EXCEPT !.auto_total = SumSeq(ri.gifts),
               !.received = IF ri.received <= 0 /\ Len(ri.gifts) > 0
                            THEN Len(ri.gifts) ELSE ri.received]

\* Lines 506-509: the text at the left of a row's bar, "received/needed" or
\* "received" alone when needed is 0, as the numbers it is formatted from.
frac_text(ri) ==
    IF ri.needed # 0 THEN <<ri.received, "/", ri.needed>> ELSE <<ri.received>>

\* What makes the function raise:
\*   iterating a gifts value that is no list, g.get on a non-object gift
\*   int(NaN) for a row's received or needed            (ValueError)
\*   re.search on a label that is no string             (TypeError)
\*   drawCentredString of a label that is no string
\*   title.upper() on a truthy title that is no string  (AttributeError)
BuildRaises(state) ==
    \/ state.gifts.t = "bad"
    \/ \E i \in 1..Len(GiftsRaw(state)) : GiftsRaw(state)[i].t # "dict"
    \/ \E i \in 1..Len(state.rows) :
          \/ IsNaN(state.rows[i].received)
          \/ IsNaN(state.rows[i].needed)
          \/ LabelRaises(state.rows[i].label)
    \/ ~Falsy(state.title) /\ state.title.t # "str"

\* The values the drawing code then prints: the pill's total, the rows in
\* bar order with their counts and bucket sums, and each bar's fraction.
_build_pdf_from_state(state) ==
    IF BuildRaises(state)
    THEN [raised |-> TRUE, gifts |-> << >>, total_received_to_date |-> 0,
          row_infos |-> << >>, frac_text |-> << >>]
    ELSE LET gifts == SortedGifts(state)
             bucketed == BucketGifts(SortRows(RowInfos(state.rows)), gifts)
         IN  [raised |-> FALSE,
              gifts |-> gifts,
              total_received_to_date |-> SumSeq(gifts),
              row_infos |-> [i \in 1..Len(bucketed) |-> Finalize(bucketed[i])],
              frac_text |-> [i \in 1..Len(bucketed) |-> frac_text(Finalize(bucketed[i]))]]

-----------------------------------------------------------------------------
(* State *)

VARIABLES
    dbUrl,        \* DATABASE_URL is set in the environment
    tableExists,  \* leadership_state exists (committed)
    table,        \* its committed rows: records [id, doc]
    nextId,       \* next value of the id sequence
    pc,           \* per server process: where it is
    txn,          \* per server process: its open transaction
    req,          \* per server process: the POST /api/state it is handling
    resp,         \* the last response sent
    lastPost,     \* the last committed POST /api/state and whether the rows
                  \* visible to it are still the rows visible now
    call          \* a direct call of a function: argument and result

srv == <<dbUrl, tableExists, table, nextId, pc, txn, req, resp, lastPost>>
vars == <<dbUrl, tableExists, table, nextId, pc, txn, req, resp, lastPost, call>>

SeqsUpTo(S, n) == UNION {[1..k -> S] : k \in 0..n}
Count(xs, x) == Cardinality({i \in 1..Len(xs) : xs[i] = x})
Range(xs) == {xs[i] : i \in 1..Len(xs)}
NoCall == [fn |-> "none", arg |-> << >>, out |-> << >>, done |-> TRUE]

\* The server variables of a specification that only calls a function.
ServerOff ==
    /\ dbUrl = FALSE
    /\ tableExists = FALSE
    /\ table = {}
    /\ nextId = 1
    /\ pc = << >>
    /\ txn = << >>
    /\ req = << >>
    /\ resp = << >>
    /\ lastPost = << >>

-----------------------------------------------------------------------------
(* SpecBuild: _build_pdf_from_state called on bounded states *)

MaxRows == 2
MaxGifts == 3

LabelChoices ==
    { Str(<<"Other gifts">>),
      Str(<<"Gifts of ", "$", "2">>),
      Str(<<"$", "5", " and up">>) }
RowChoices ==
    { [label |-> l, received |-> r, needed |-> Num(4)] :
        l \in LabelChoices, r \in {Num(0), Num(3)} }
AmountChoices == {Num(0 - 1), Num(1), Num(2), Num(5), Num(7)}
TemplateAmounts == {Num(25000000), Num(600000), Num(50000), Num(49999)}

StateOf(rows, amounts) ==
    [goal |-> default_state.goal,
     title |-> default_state.title,
     rows |-> rows,
     gifts |-> GiftList([i \in 1..Len(amounts) |-> Gift(amounts[i])])]

\* A call of _build_pdf_from_state that has not run yet.
BuildCall(state) == [fn |-> "build_pdf", arg |-> state, out |-> << >>, done |-> FALSE]

InitBuild ==
    /\ ServerOff
    /\ \/ \E rows \in SeqsUpTo(RowChoices, MaxRows),
              amounts \in SeqsUpTo(AmountChoices, MaxGifts) :
              call = BuildCall(StateOf(rows, amounts))
       \/ \E amounts \in SeqsUpTo(TemplateAmounts, MaxGifts) :
              call = BuildCall(StateOf(TemplateRows, amounts))

CallBuildPdf ==
    /\ call.fn = "build_pdf"
    /\ ~call.done
    /\ call' = [call EXCEPT !.out = _build_pdf_from_state(call.arg), !.done = TRUE]
    /\ UNCHANGED srv

NextBuild == CallBuildPdf

SpecBuild == InitBuild /\ [][NextBuild]_vars

Built == call.fn = "build_pdf" /\ call.done /\ ~call.out.raised

\* The positive amounts of the state's gifts, straight from the input.
PositiveAmounts(state) ==
    LET raw == GiftsRaw(state)
    IN  [i \in 1..Len(raw) |->
            IF _parse_number(raw[i].amount) > 0 THEN _parse_number(raw[i].amount) ELSE 0]

RowsHolding(row_infos, a) == {i \in 1..Len(row_infos) : a \in Range(row_infos[i].gifts)}
\* The sum of the gifts that are in no row's list.
RECURSIVE UnbucketedSum(_, _)
UnbucketedSum(row_infos, gifts) ==
    IF gifts = << >> THEN 0
    ELSE (IF RowsHolding(row_infos, Head(gifts)) = {} THEN Head(gifts) ELSE 0)
         + UnbucketedSum(row_infos, Tail(gifts))

\* C1: every gift with amount > 0 is in the gifts list of at most one row;
\* the row holding it has base <= amount, and amount < the base of every
\* row with a higher base (so of the next-higher one; the highest row has
\* no upper bound); a gift below every row's base is in no row.
C1_Bucketing ==
    Built =>
        LET rows == call.out.row_infos
            gifts == call.out.gifts
        IN  /\ \A a \in Range(gifts) :
                  /\ a > 0
                  /\ SumSeq([i \in 1..Len(rows) |-> Count(rows[i].gifts, a)]) <= Count(gifts, a)
                  /\ (\A i \in 1..Len(rows) : a < rows[i].base) => RowsHolding(rows, a) = {}
            /\ \A i \in 1..Len(rows) : \A a \in Range(rows[i].gifts) :
                  /\ a \in Range(gifts)
                  /\ rows[i].base <= a
                  /\ \A j \in 1..Len(rows) : rows[j].base > rows[i].base => a < rows[j].base

\* A gift sits in a row that has a higher-based row above it and another
\* gift is in no row at all.
C1_Witness ==
    /\ Built
    /\ \E i \in 1..Len(call.out.row_infos) :
          /\ call.out.row_infos[i].gifts # << >>
          /\ \E j \in 1..Len(call.out.row_infos) :
                call.out.row_infos[j].base > call.out.row_infos[i].base
    /\ \E a \in Range(call.out.gifts) : RowsHolding(call.out.row_infos, a) = {}

\* C2: the rows' auto_total values plus the amounts of the gifts that are
\* in no row add up to total_received_to_date, which is the sum of the
\* input's gift amounts that are > 0.
C2_Conservation ==
    Built =>
        LET rows == call.out.row_infos
            gifts == call.out.gifts
            unbucketed == UnbucketedSum(rows, gifts)
        IN  /\ SumSeq([i \in 1..Len(rows) |-> rows[i].auto_total]) + unbucketed
                  = call.out.total_received_to_date
            /\ call.out.total_received_to_date = SumSeq(PositiveAmounts(call.arg))

\* A gift in a row, another gift in no row, and an amount <= 0 in the input.
C2_Witness ==
    /\ Built
    /\ \E i \in 1..Len(call.out.row_infos) : call.out.row_infos[i].gifts # << >>
    /\ \E a \in Range(call.out.gifts) : RowsHolding(call.out.row_infos, a) = {}
    /\ Len(call.out.gifts) < Len(GiftsRaw(call.arg))

-----------------------------------------------------------------------------
(* SpecMerge: merge_state_with_template called on bounded request bodies *)

MaxClientRows == 11

EntryChoices ==
    { Entry("null", Absent, Absent, Absent),
      Entry("dict", Num(5), Absent, Absent),
      Entry("dict", Null, Absent, Absent),
      Entry("dict", Absent, Str(<<"Gifts of ", "$", "1">>), Num(99)),
      Entry("dict", Str(<<"7">>), Str(<<"Gifts of ", "$", "1">>), Num(99)),
      Entry("num", Absent, Absent, Absent),
      Entry("str", Absent, Absent, Absent),
      Entry("strrecv", Absent, Absent, Absent) }

\* Lists of up to MaxClientRows items: one item repeated, and one other item
\* at one place.
RowLists ==
    {<< >>} \cup
    { [i \in 1..len |-> IF i = at THEN one ELSE rest] :
        len \in 1..MaxClientRows, at \in 1..MaxClientRows,
        one \in EntryChoices, rest \in EntryChoices }

RowsChoices ==
    { RowsValue("absent", << >>), RowsValue("null", << >>),
      RowsValue("num", << >>), RowsValue("dict", << >>),
      RowsValue("str", <<Entry("str", Absent, Absent, Absent)>>) }
    \cup {RowsValue("list", items) : items \in RowLists}

MergeBodies ==
    {NullBody, BadBody} \cup
    { Body("dict", goal, Absent, rows, gifts) :
        goal \in {Absent, Num(7)},
        rows \in RowsChoices,
        gifts \in {NoGifts("absent"), GiftList(<<Gift(Num(25000000))>>)} }

InitMerge ==
    /\ ServerOff
    /\ call \in {[fn |-> "merge", arg |-> b, out |-> << >>, done |-> FALSE] :
                    b \in MergeBodies}

CallMerge ==
    /\ call.fn = "merge"
    /\ ~call.done
    /\ call' = [call EXCEPT !.out = merge_state_with_template(call.arg), !.done = TRUE]
    /\ UNCHANGED srv

NextMerge == CallMerge

SpecMerge == InitMerge /\ [][NextMerge]_vars

Merged == call.fn = "merge" /\ call.done /\ ~call.out.raised

\* The rows items the client sent, when its body is an object whose rows
\* value is a list.
ClientRows(body) ==
    IF body.t = "dict" /\ body.rows.t = "list" THEN body.rows.items ELSE << >>
CarriesReceived(body, i) ==
    /\ i <= Len(ClientRows(body))
    /\ ClientRows(body)[i].t = "dict"
    /\ ClientRows(body)[i].received.t # "absent"
\* The body with its rows cut to the first n items.
CutRows(body, n) ==
    IF Len(ClientRows(body)) <= n THEN body
    ELSE [body EXCEPT !.rows.items = SubSeq(@, 1, n)]

\* C4: for every template index i, a client rows entry at i carrying a
\* received field with value X gives merged rows[i].received = X; every
\* other index keeps the template's value (1 at the third row, 0 elsewhere);
\* client entries past the template's length change nothing.
C4_ReceivedPassThrough ==
    Merged =>
        /\ Len(call.out.doc.rows) = 10
        /\ \A i \in 1..10 :
              call.out.doc.rows[i].received =
                 IF CarriesReceived(call.arg, i) THEN ClientRows(call.arg)[i].received
                 ELSE IF i = 3 THEN Num(1) ELSE Num(0)
        /\ call.out = merge_state_with_template(CutRows(call.arg, 10))

\* A body with more rows than the template whose tenth and eleventh entries
\* carry received, and an entry before them that does not.
C4_Witness ==
    /\ Merged
    /\ Len(ClientRows(call.arg)) > 10
    /\ CarriesReceived(call.arg, 10)
    /\ CarriesReceived(call.arg, 11)
    /\ \E i \in 1..9 : ~CarriesReceived(call.arg, i)

-----------------------------------------------------------------------------
(* SpecRender: _build_pdf_from_state called on degenerate states: no rows, *)
(* no gifts, labels without an amount, gifts without a usable amount,      *)
(* manual counts of every sign.                                            *)

MaxRenderRows == 2
MaxRenderGifts == 2

RenderRow(label, received, needed) ==
    [label |-> label, received |-> received, needed |-> needed]
RenderRows ==
    { RenderRow(Str(<<"$", "5", " and up">>), Num(0), Num(4)),
      RenderRow(Str(<<"Gifts of ", "$", "2">>), Num(3), Num(4)),
      RenderRow(Str(<<"$", "5", " and up">>), Num(0 - 2), Num(0)),
      RenderRow(Str(<<"Other gifts">>), Num(0), Num(0)),
      RenderRow(Str(<<"$", " TBD">>), Str(<<"3">>), Num(4)),
      RenderRow(Absent, Absent, Absent) }
NonPositiveGifts ==
    {Gift(Absent), Gift(Str(<<"n/a">>)), Gift(Num(0)), Gift(Num(0 - 1))}
RenderGifts == NonPositiveGifts \cup {Gift(Num(2)), Gift(Num(5))}

RenderGiftLists ==
    {GiftList(items) : items \in SeqsUpTo(RenderGifts, MaxRenderGifts)}
    \cup {NoGifts("absent"), NoGifts("null")}
RenderState(rows, gifts) ==
    [goal |-> default_state.goal, title |-> default_state.title,
     rows |-> rows, gifts |-> gifts]

InitRender ==
    /\ ServerOff
    /\ \E rows \in SeqsUpTo(RenderRows, MaxRenderRows), gifts \in RenderGiftLists :
          call = BuildCall(RenderState(rows, gifts))

SpecRender == InitRender /\ [][NextBuild]_vars

\* The state with another gifts list.
WithGifts(state, items) == [state EXCEPT !.gifts = GiftList(items)]
NonPositive(g) == g.amount.t # "nan" /\ _parse_number(g.amount) <= 0
InsertAt(xs, k, x) == SubSeq(xs, 1, k) \o <<x>> \o SubSeq(xs, k + 1, Len(xs))

\* C11: a gift whose amount parses to 0 or less (missing and unparseable
\* amounts included) is in no row's list and not in the total: the result
\* (total, rows with their lists, counts, sums and fractions) is the same
\* with all such gifts removed and with one more of them added in front of
\* or behind the list.
C11_NonPositiveExcluded ==
    Built =>
        LET raw == GiftsRaw(call.arg)
            positive == SelectSeq(raw, LAMBDA g : ~NonPositive(g))
        IN  /\ \A a \in Range(call.out.gifts) : a > 0
            /\ \A i \in 1..Len(call.out.row_infos) :
                  \A a \in Range(call.out.row_infos[i].gifts) : a > 0
            /\ Len(call.out.gifts) = Len(positive)
            /\ call.out = _build_pdf_from_state(WithGifts(call.arg, positive))
            /\ \A g \in NonPositiveGifts : \A k \in {0, Len(raw)} :
                  call.out = _build_pdf_from_state(WithGifts(call.arg, InsertAt(raw, k, g)))

\* A gift of amount 0 next to a positive gift, with a row of base 0 that
\* would take the 0 and a row that holds the positive gift.
C11_Witness ==
    /\ Built
    /\ Gift(Num(0)) \in Range(GiftsRaw(call.arg))
    /\ Len(call.out.gifts) = 1
    /\ \E i \in 1..Len(call.out.row_infos) :
          /\ call.out.row_infos[i].base = 0
          /\ call.out.row_infos[i].gifts = << >>
    /\ \E i \in 1..Len(call.out.row_infos) : call.out.row_infos[i].gifts # << >>

\* The label is a string with a "$" directly followed by a digit or comma.
HasAmountPattern(label) ==
    /\ label.t = "str"
    /\ \E i \in 1..(Len(label.s) - 1) :
          /\ label.s[i] = "$"
          /\ IsDigit(label.s[i + 1]) \/ label.s[i + 1] = ","
\* No rows, no gifts, or a row whose label has no amount.
Degenerate(state) ==
    \/ state.rows = << >>
    \/ GiftsRaw(state) = << >>
    \/ \E i \in 1..Len(state.rows) : ~HasAmountPattern(state.rows[i].label)

\* C12: _build_pdf_from_state does not raise on a state with no rows, with
\* no gifts, or with rows whose label has no $amount; such a row has base 0,
\* no rows give no bars, and no gifts give a total of 0 and a bucket sum of
\* 0 in every row.
C12_DegenerateRenders ==
    (call.fn = "build_pdf" /\ call.done /\ Degenerate(call.arg)) =>
        /\ ~call.out.raised
        /\ Len(call.out.row_infos) = Len(call.arg.rows)
        /\ \A i \in 1..Len(call.out.row_infos) :
              ~HasAmountPattern(call.out.row_infos[i].label)
                  => call.out.row_infos[i].base = 0
        /\ GiftsRaw(call.arg) = << >> =>
              /\ call.out.total_received_to_date = 0
              /\ \A i \in 1..Len(call.out.row_infos) :
                    /\ call.out.row_infos[i].auto_total = 0
                    /\ call.out.row_infos[i].gifts = << >>

\* A state without gifts whose rows are one with an amount and one without
\* has been built.
C12_Witness ==
    /\ call.fn = "build_pdf"
    /\ call.done
    /\ ~call.out.raised
    /\ GiftsRaw(call.arg) = << >>
    /\ Len(call.out.row_infos) = 2
    /\ call.out.row_infos[1].base > 0
    /\ call.out.row_infos[2].label = Str(<<"Other gifts">>)
    /\ call.out.row_infos[2].base = 0

\* The rows as read from the state, in bar order, before any gift is
\* bucketed: received and needed are the manually entered values.
ManualRows(state) == SortRows(RowInfos(state.rows))

\* C13: the count at the left of a row's bar is the manual received value
\* when that is > 0, the number of gifts bucketed into the row when the
\* manual value is <= 0 and there is such a gift, and where both are
\* non-zero never their sum; needed is the value read from the state, and
\* the fraction shows it after the count unless it is 0.
C13_AutoOnlyIfManualZero ==
    Built =>
        LET manual_rows == ManualRows(call.arg)
        IN  \A i \in 1..Len(call.out.row_infos) :
                LET manual == manual_rows[i].received
                    needed == manual_rows[i].needed
                    auto_count == Len(call.out.row_infos[i].gifts)
                    shown == call.out.frac_text[i][1]
                IN  /\ manual > 0 => shown = manual
                    /\ (manual <= 0 /\ auto_count > 0) => shown = auto_count
                    /\ (manual <= 0 /\ auto_count = 0) => shown = manual
                    /\ (manual # 0 /\ auto_count # 0) => shown # manual + auto_count
                    /\ call.out.row_infos[i].needed = needed
                    /\ call.out.frac_text[i] =
                           IF needed # 0 THEN <<shown, "/", needed>> ELSE <<shown>>

\* One row with a manual count of 3 that holds a gift and shows 3, and one
\* row with a manual count below 0 that holds a gift and shows 1.
C13_Witness ==
    /\ Built
    /\ Len(call.out.row_infos) = 2
    /\ \E i, j \in 1..2 :
          /\ ManualRows(call.arg)[i].received = 3
          /\ Len(call.out.row_infos[i].gifts) = 1
          /\ call.out.frac_text[i][1] = 3
          /\ ManualRows(call.arg)[j].received < 0
          /\ Len(call.out.row_infos[j].gifts) = 1
          /\ call.out.frac_text[j] = <<1>>

-----------------------------------------------------------------------------
(* The store: one PostgreSQL table, transactions at READ COMMITTED.        *)
(* A statement sees the committed rows and its own transaction's rows; an  *)
(* id is taken from the sequence when the INSERT runs, not when it         *)
(* commits; an UPDATE holds its row's lock until its transaction ends.     *)

Procs == {1, 2}

\* A json.dumps that loses the gifts list.
DumpsNoGifts(doc) ==
    << <<"goal", doc.goal>>, <<"title", doc.title>>,
       <<"rows", doc.rows>>, <<"gifts", default_state.gifts>> >>

\* json.dumps(state) as stored in state_json, and what psycopg2 hands back.
Dumps(doc) ==
    << <<"goal", doc.goal>>, <<"title", doc.title>>,
       <<"rows", doc.rows>>, <<"gifts", doc.gifts>> >>
Loads(text) ==
    [goal |-> text[1][2], title |-> text[2][2], rows |-> text[3][2], gifts |-> text[4][2]]

\* The JSONB column rejects the NaN token json.dumps writes.
JsonbAccepts(doc) ==
    /\ ~IsNaN(doc.goal)
    /\ ~IsNaN(doc.title)
    /\ \A i \in 1..Len(doc.rows) : ~IsNaN(doc.rows[i].received)
    /\ \A i \in 1..Len(doc.gifts.items) :
          doc.gifts.items[i].t = "dict" => ~IsNaN(doc.gifts.items[i].amount)

\* A transaction: its uncommitted CREATE TABLE, INSERTs and UPDATE, and the
\* id its SELECT fetched (0 for None).  quiet and second are bookkeeping
\* for the properties: no INSERT was committed since the request began;
\* another POST /api/state that overlapped this one has committed.
NoTxn == [create |-> FALSE, ins |-> {}, upd |-> {}, rowid |-> 0,
          quiet |-> TRUE, second |-> FALSE]
NoReq == [route |-> "none", body |-> NullBody]
\* A response: handled is FALSE when the exception left the view function
\* (Flask then answers with its own 500 page); cause names what failed;
\* doc is the JSON document in the body of GET /api/state; stamp is
\* lastPost as it was when that document was read.
NoStamp == [valid |-> FALSE, second |-> FALSE, doc |-> default_state]
NoResp ==
    [route |-> "none", status |-> 0, handled |-> TRUE, cause |-> "none",
     doc |-> default_state, stamp |-> NoStamp]
Response(route, status, handled, cause) ==
    [route |-> route, status |-> status, handled |-> handled, cause |-> cause,
     doc |-> default_state, stamp |-> NoStamp]

\* get_conn(): RuntimeError without DATABASE_URL; psycopg2.connect may fail.
ConnOutcomes == IF dbUrl THEN {TRUE, FALSE} ELSE {FALSE}

\* The rows a statement of p sees.
Visible(p) == table \cup txn[p].ins
Ids(rows) == {r.id : r \in rows}
\* SELECT id FROM leadership_state ORDER BY id LIMIT 1 (0 for no row)
LastId(rows) == IF rows = {} THEN 0 ELSE CHOOSE i \in Ids(rows) : \A j \in Ids(rows) : j <= i
FirstId(rows) == IF rows = {} THEN 0 ELSE MinOf(Ids(rows))
\* SELECT state_json FROM leadership_state ORDER BY id LIMIT 1
FirstStateJson(rows) == (CHOOSE r \in rows : r.id = MinOf(Ids(rows))).state_json

\* UPDATE ... SET state_json = %s WHERE id = %s, applied at commit.
UpdateRowsGoalOnly(rows, upd) ==
    { IF \E u \in upd : u.id = r.id
      THEN [r EXCEPT !.state_json[1] = (CHOOSE u \in upd : u.id = r.id).state_json[1]]
      ELSE r : r \in rows }
UpdateRows(rows, upd) ==
    { IF \E u \in upd : u.id = r.id THEN CHOOSE u \in upd : u.id = r.id ELSE r : r \in rows }

\* The row lock of another transaction's uncommitted UPDATE.
LockedByOther(p, id) == \E q \in Procs \ {p} : id \in Ids(txn[q].upd)

Init ==
    /\ dbUrl \in BOOLEAN
    /\ tableExists \in BOOLEAN
    /\ table = {}
    /\ nextId = 1
    /\ pc = [p \in Procs |-> "boot"]
    /\ txn = [p \in Procs |-> NoTxn]
    /\ req = [p \in Procs |-> NoReq]
    /\ resp = NoResp
    /\ lastPost = NoStamp
    /\ call = NoCall

-----------------------------------------------------------------------------
(* ensure_table(), run by every server process when the module is imported *)

\* Line 60: get_conn().  The exception ends the import: the process is gone.
Boot(p) ==
    /\ pc[p] = "boot"
    /\ \E up \in ConnOutcomes :
          pc' = [pc EXCEPT ![p] = IF up THEN "ens_create" ELSE "crashed"]
    /\ UNCHANGED <<dbUrl, tableExists, table, nextId, txn, req, resp, lastPost, call>>

\* Lines 63-71: CREATE TABLE IF NOT EXISTS.  While another transaction's
\* creation of the table is uncommitted the statement waits on it.
EnsureCreate(p) ==
    /\ pc[p] = "ens_create"
    /\ IF tableExists
       THEN /\ pc' = [pc EXCEPT ![p] = "ens_select"]
            /\ txn' = txn
       ELSE IF \E q \in Procs \ {p} : txn[q].create
       THEN /\ pc' = [pc EXCEPT ![p] = "ens_create_wait"]
            /\ txn' = txn
       ELSE /\ pc' = [pc EXCEPT ![p] = "ens_select"]
            /\ txn' = [txn EXCEPT ![p].create = TRUE]
    /\ UNCHANGED <<dbUrl, tableExists, table, nextId, req, resp, lastPost, call>>

\* The other creation committed: the waiting statement fails on the
\* catalog's unique index and ensure_table raises.
EnsureCreateConflict(p) ==
    /\ pc[p] = "ens_create_wait"
    /\ tableExists
    /\ pc' = [pc EXCEPT ![p] = "crashed"]
    /\ UNCHANGED <<dbUrl, tableExists, table, nextId, txn, req, resp, lastPost, call>>

\* Lines 73-74
EnsureSelect(p) ==
    /\ pc[p] = "ens_select"
    /\ txn' = [txn EXCEPT ![p].rowid = FirstId(Visible(p))]
    /\ pc' = [pc EXCEPT ![p] = "ens_insert"]
    /\ UNCHANGED <<dbUrl, tableExists, table, nextId, req, resp, lastPost, call>>

\* Lines 76-81
EnsureInsert(p) ==
    /\ pc[p] = "ens_insert"
    /\ IF txn[p].rowid = 0
       THEN /\ txn' = [txn EXCEPT ![p].ins =
                          @ \cup {[id |-> nextId, state_json |-> Dumps(default_state)]}]
            /\ nextId' = nextId + 1
       ELSE UNCHANGED <<txn, nextId>>
    /\ pc' = [pc EXCEPT ![p] = "ens_commit"]
    /\ UNCHANGED <<dbUrl, tableExists, table, req, resp, lastPost, call>>

\* Lines 83-85; line 91 returns and the process serves requests.
EnsureCommit(p) ==
    /\ pc[p] = "ens_commit"
    /\ tableExists' = (tableExists \/ txn[p].create)
    /\ table' = table \cup txn[p].ins
    /\ txn' = [q \in Procs |->
                 IF q = p THEN NoTxn
                 ELSE IF txn[p].ins # {} THEN [txn[q] EXCEPT !.quiet = FALSE]
                 ELSE txn[q]]
    /\ lastPost' = IF txn[p].ins # {} THEN [lastPost EXCEPT !.valid = FALSE] ELSE lastPost
    /\ pc' = [pc EXCEPT ![p] = "idle"]
    /\ UNCHANGED <<dbUrl, nextId, req, resp, call>>

-----------------------------------------------------------------------------
(* Request handlers.  A process handles one request at a time.             *)

\* Bodies posted to /api/state.
BodyX ==
    Body("dict", Absent, Absent,
         RowsValue("list", <<Entry("dict", Num(5), Str(<<"Gifts of ", "$", "1">>), Num(99))>>),
         GiftList(<<Gift(Num(25000000))>>))
BodyY ==
    Body("dict", Num(7), Str(<<"Campaign">>), RowsValue("absent", << >>),
         GiftList(<<BadGift>>))
BodyNaN ==
    Body("dict", NaN, Absent, RowsValue("absent", << >>), NoGifts("absent"))
PostedBodies == {NullBody, BodyX, BodyY, BadBody, BodyNaN}

\* Bodies posted to /api/generate-pdf: an object (the state), or a truthy
\* value that is no object; a falsy body stands for {}.
EmptyState ==
    [goal |-> Absent, title |-> Absent, rows |-> << >>, gifts |-> NoGifts("absent")]
PostedStates ==
    { [dict |-> TRUE, state |-> default_state],
      [dict |-> TRUE, state |-> EmptyState],
      [dict |-> TRUE, state |-> [default_state EXCEPT !.gifts = GiftList(<<BadGift>>)]],
      [dict |-> FALSE, state |-> EmptyState] }

\* GET /api/state, lines 101-125.  No try/except: an exception leaves the
\* view.  With no row the default is inserted and committed on a second
\* connection (lines 115-125).
get_state(p) ==
    /\ pc[p] = "idle"
    /\ \E up \in ConnOutcomes :
          IF ~up
          THEN /\ resp' = Response("get_state", 500, FALSE, "conn")
               /\ UNCHANGED <<table, nextId, lastPost, txn>>
          ELSE IF table # {}
          THEN /\ resp' = [Response("get_state", 200, TRUE, "none") EXCEPT
                              !.doc = Loads(FirstStateJson(table)),
                              !.stamp = lastPost]
               /\ UNCHANGED <<table, nextId, lastPost, txn>>
          ELSE /\ table' = {[id |-> nextId, state_json |-> Dumps(default_state)]}
               /\ nextId' = nextId + 1
               /\ lastPost' = [lastPost EXCEPT !.valid = FALSE]
               /\ txn' = [q \in Procs |-> [txn[q] EXCEPT !.quiet = FALSE]]
               /\ resp' = Response("get_state", 200, TRUE, "none")
    /\ UNCHANGED <<dbUrl, tableExists, pc, req, call>>

\* POST /api/state, lines 153-161: parse, merge, connect, SELECT id.  Any
\* exception is caught (line 178) and answered with 500 and the message.
save_state_begin(p, body) ==
    /\ pc[p] = "idle"
    /\ IF merge_state_with_template(body).raised
       THEN /\ resp' = Response("save_state", 500, TRUE, "merge")
            /\ UNCHANGED <<pc, txn, req>>
       ELSE \E up \in ConnOutcomes :
              IF ~up
              THEN /\ resp' = Response("save_state", 500, TRUE, "conn")
                   /\ UNCHANGED <<pc, txn, req>>
              ELSE /\ txn' = [txn EXCEPT ![p] = [NoTxn EXCEPT !.rowid = FirstId(Visible(p))]]
                   /\ req' = [req EXCEPT ![p] = [route |-> "save_state", body |-> body]]
                   /\ pc' = [pc EXCEPT ![p] = "save_write"]
                   /\ UNCHANGED resp
    /\ UNCHANGED <<dbUrl, tableExists, table, nextId, lastPost, call>>

\* Lines 163-172: INSERT when the SELECT found no row, else UPDATE of the
\* row it found.  The UPDATE waits while another transaction holds the
\* row's lock; the JSONB input error is raised before any lock is taken.
save_state_write(p) ==
    /\ pc[p] = "save_write"
    /\ LET merged_state == merge_state_with_template(req[p].body).doc
       IN  IF ~JsonbAccepts(merged_state)
           THEN /\ resp' = Response("save_state", 500, TRUE, "jsonb")
                /\ txn' = [txn EXCEPT ![p] = NoTxn]
                /\ req' = [req EXCEPT ![p] = NoReq]
                /\ pc' = [pc EXCEPT ![p] = "idle"]
                /\ UNCHANGED nextId
           ELSE IF txn[p].rowid = 0
           THEN /\ txn' = [txn EXCEPT ![p].ins =
                              {[id |-> nextId, state_json |-> Dumps(merged_state)]}]
                /\ nextId' = nextId + 1
                /\ pc' = [pc EXCEPT ![p] = "save_commit"]
                /\ UNCHANGED <<resp, req>>
           ELSE /\ ~LockedByOther(p, txn[p].rowid)
                /\ txn' = [txn EXCEPT ![p].upd =
                              {[id |-> txn[p].rowid, state_json |-> Dumps(merged_state)]}]
                /\ pc' = [pc EXCEPT ![p] = "save_commit"]
                /\ UNCHANGED <<resp, req, nextId>>
    /\ UNCHANGED <<dbUrl, tableExists, table, lastPost, call>>

\* Lines 174-177: commit, close, {"status": "ok"}.
save_state_commit(p) ==
    /\ pc[p] = "save_commit"
    /\ table' = UpdateRows(table, txn[p].upd) \cup txn[p].ins
    /\ lastPost' = [valid |-> txn[p].quiet /\ txn[p].ins = {},
                    second |-> txn[p].second,
                    doc |-> merge_state_with_template(req[p].body).doc]
    /\ resp' = Response("save_state", 200, TRUE, "none")
    /\ txn' = [q \in Procs |->
                 IF q = p THEN NoTxn
                 ELSE IF pc[q] \in {"save_write", "save_commit"}
                 THEN [txn[q] EXCEPT !.second = TRUE,
                                     !.quiet = @ /\ txn[p].ins = {}]
                 ELSE txn[q]]
    /\ req' = [req EXCEPT ![p] = NoReq]
    /\ pc' = [pc EXCEPT ![p] = "idle"]
    /\ UNCHANGED <<dbUrl, tableExists, nextId, call>>

\* GET /debug-db, lines 183-194.
debug_db(p) ==
    /\ pc[p] = "idle"
    /\ \E up \in ConnOutcomes :
          resp' = IF up THEN Response("debug_db", 200, TRUE, "none")
                  ELSE Response("debug_db", 500, TRUE, "conn")
    /\ UNCHANGED <<dbUrl, tableExists, table, nextId, pc, txn, req, lastPost, call>>

\* POST /api/generate-pdf, lines 549-562.  No storage, no try/except.
api_generate_pdf(p, posted) ==
    /\ pc[p] = "idle"
    /\ resp' = IF ~posted.dict \/ _build_pdf_from_state(posted.state).raised
               THEN Response("api_generate_pdf", 500, FALSE, "render")
               ELSE Response("api_generate_pdf", 200, TRUE, "none")
    /\ UNCHANGED <<dbUrl, tableExists, table, nextId, pc, txn, req, lastPost, call>>

\* GET /generate-pdf, lines 565-592.  No try/except.
generate_pdf_from_saved_state(p) ==
    /\ pc[p] = "idle"
    /\ \E up \in ConnOutcomes :
          resp' = IF ~up THEN Response("generate_pdf", 500, FALSE, "conn")
                  ELSE LET state == IF table # {} THEN Loads(FirstStateJson(table))
                                    ELSE default_state
                       IN  IF _build_pdf_from_state(state).raised
                           THEN Response("generate_pdf", 500, FALSE, "render")
                           ELSE Response("generate_pdf", 200, TRUE, "none")
    /\ UNCHANGED <<dbUrl, tableExists, table, nextId, pc, txn, req, lastPost, call>>

Next ==
    \E p \in Procs :
        \/ Boot(p)
        \/ EnsureCreate(p)
        \/ EnsureCreateConflict(p)
        \/ EnsureSelect(p)
        \/ EnsureInsert(p)
        \/ EnsureCommit(p)
        \/ get_state(p)
        \/ \E body \in PostedBodies : save_state_begin(p, body)
        \/ save_state_write(p)
        \/ save_state_commit(p)
        \/ debug_db(p)
        \/ \E posted \in PostedStates : api_generate_pdf(p, posted)
        \/ generate_pdf_from_saved_state(p)

Spec == Init /\ [][Next]_vars

-----------------------------------------------------------------------------
(* Properties of the server *)

Serving(p) == pc[p] \in {"idle", "save_write", "save_commit"}
Booting == \A p \in Procs : pc[p] = "boot"
\* What GET /api/state would return now.
StoredDoc == Loads(FirstStateJson(table))
\* Every document in the store, committed or not, and every merged document
\* of a POST in progress.
DocsAround ==
    {Loads(r.state_json) : r \in table}
    \cup UNION {{Loads(r.state_json) : r \in txn[p].ins \cup txn[p].upd} : p \in Procs}
    \cup {merge_state_with_template(req[p].body).doc :
             p \in {q \in Procs : pc[q] \in {"save_write", "save_commit"}}}
TemplateShape(rows) ==
    /\ Len(rows) = 10
    /\ \A i \in 1..10 :
          /\ rows[i].label = TemplateRows[i].label
          /\ rows[i].needed = TemplateRows[i].needed

\* C3: whatever the client sends, the merged rows are the template's ten
\* rows in order with the template's label and needed, and so are the rows
\* of every stored document after any sequence of requests.
C3_RowsServerAuthoritative ==
    /\ \A d \in DocsAround : TemplateShape(d.rows)
    /\ Booting =>
          \A b \in MergeBodies :
              ~merge_state_with_template(b).raised
                  => TemplateShape(merge_state_with_template(b).doc.rows)

\* The stored document came from a body whose first row tried to change
\* label and needed along with received.
C3_Witness ==
    /\ table # {}
    /\ StoredDoc.rows[1].received = BodyX.rows.items[1].received
    /\ BodyX.rows.items[1].label # TemplateRows[1].label
    /\ BodyX.rows.items[1].needed # TemplateRows[1].needed

\* C5: GET /api/state after a successful POST /api/state, with no other
\* write in between (no later POST committed, and no row was inserted since
\* the POST began), returns exactly the merge of the posted body.
C5_RoundTrip ==
    (resp.route = "get_state" /\ resp.status = 200 /\ resp.stamp.valid)
        => resp.doc = resp.stamp.doc

\* A GET answered with a posted document that differs from the default in
\* received and gifts.
C5_Witness ==
    /\ resp.route = "get_state"
    /\ resp.status = 200
    /\ resp.stamp.valid
    /\ resp.doc = merge_state_with_template(BodyX).doc
    /\ resp.doc # default_state

\* C6: once a process has finished ensure_table, the table holds exactly
\* one row.
C6_Singleton ==
    (\E p \in Procs : Serving(p)) => Cardinality(table) = 1

\* A POST /api/state that has to wait for the other's commit.
Waiting(p) ==
    /\ pc[p] = "save_write"
    /\ JsonbAccepts(merge_state_with_template(req[p].body).doc)
    /\ txn[p].rowid # 0
    /\ LockedByOther(p, txn[p].rowid)

LastCommitWins == lastPost.valid => (table # {} /\ StoredDoc = lastPost.doc)
NeverRejected ==
    (resp.route = "save_state" /\ resp.status # 200)
        => resp.cause \in {"merge", "conn", "jsonb"}

C8_ErrorsCaught == resp.handled

\* C9: the merge never raises, so a POST /api/state whose body parsed never
\* fails in the merge.
C9_MergeAlwaysReturns == ~(resp.route = "save_state" /\ resp.cause = "merge")

\* C10: without DATABASE_URL the process still starts and serves.
C10_StartsWithoutDatabaseUrl == ~dbUrl => \A p \in Procs : pc[p] # "crashed"

=============================================================================
